---- MODULE Spec2Model ----
(***************************************************************************)
(* A model of utils/logging.py: the get_logger factory, the JSONFormatter  *)
(* and the sinks that get_logger attaches (a console StreamHandler and a   *)
(* RotatingFileHandler).  get_logger is modelled statement by statement so *)
(* that calls made by several threads can interleave; the labels of the    *)
(* program counter are the line numbers of src/utils/logging.py.           *)
(***************************************************************************)
EXTENDS Integers, Sequences, FiniteSets, TLC

VARIABLES
    loggers,      \* logging's registry: name -> [level, handlers, propagate]
    dirs,         \* the directories that exist
    files,        \* the files that exist: <<path, n>> -> [lines, size]; n = 0 is the active file, n >= 1 is path.n
    pc,           \* per thread: the line of get_logger it is about to execute, or "idle"
    args,         \* per thread: the arguments of the call in progress
    local,        \* per thread: the local variables formatter and log_file of the call in progress
    root_logger,  \* the module global root_logger: "unbound" until module initialisation finished
    events,       \* the number of log records created so far (the clock of record.created)
    record,       \* the last log record that was handled
    delivered,    \* what the sinks wrote for the last record: a sequence of [owner, sink, line]
    returned,     \* history: the names whose logger a get_logger call has returned to its caller
    io_failed     \* history: the names for which a get_logger call raised while setting up the file sink

vars == <<loggers, dirs, files, pc, args, local, root_logger, events, record, delivered, returned, io_failed>>

----------------------------------------------------------------------------
(* Bounds *)

NumThreads == 2
MaxEvents == 3

Threads == 1 .. NumThreads

----------------------------------------------------------------------------
(* Levels (logging.DEBUG .. logging.CRITICAL) and logging._checkLevel *)

NOTSET == 0
DEBUG == 10
INFO == 20
WARNING == 30
ERROR == 40
CRITICAL == 50

LevelNames == {"CRITICAL", "ERROR", "WARNING", "INFO", "DEBUG", "NOTSET"}

NameToLevel(s) ==
    CASE s = "CRITICAL" -> CRITICAL
      [] s = "ERROR" -> ERROR
      [] s = "WARNING" -> WARNING
      [] s = "INFO" -> INFO
      [] s = "DEBUG" -> DEBUG
      [] OTHER -> NOTSET

GetLevelName(n) ==
    CASE n = CRITICAL -> "CRITICAL"
      [] n = ERROR -> "ERROR"
      [] n = WARNING -> "WARNING"
      [] n = INFO -> "INFO"
      [] n = DEBUG -> "DEBUG"
      [] n = NOTSET -> "NOTSET"
      [] OTHER -> "Level " \o ToString(n)

\* A log_level argument is an int or a str.
IntLevel(n) == [isInt |-> TRUE, num |-> n, name |-> ""]
StrLevel(s) == [isInt |-> FALSE, num |-> 0, name |-> s]

\* Logger.setLevel(level) accepts every int and the level names, in upper case only.
LevelAcceptedAnyMut(level) == TRUE
LevelAccepted(level) == level.isInt \/ level.name \in LevelNames

CheckLevel(level) == IF level.isInt THEN level.num ELSE NameToLevel(level.name)

----------------------------------------------------------------------------
(* Paths: a path is the sequence of its components; an absolute path       *)
(* starts with the component "/".                                          *)

NoFile == <<>>                                \* log_file=None (or any falsy value)
ModuleFile == <<"/", "proj", "utils", "logging.py">>   \* __file__

IsAbsolute(p) == Len(p) > 0 /\ p[1] = "/"
Parent(p) == SubSeq(p, 1, Len(p) - 1)
Join(a, b) == IF IsAbsolute(b) THEN b ELSE a \o b

\* project_root = Path(__file__).parent.parent
ProjectRootMut == Parent(ModuleFile)
ProjectRoot == Parent(Parent(ModuleFile))

\* lines 92-96: log_file = Path(log_file), made relative to the project root
ResolveLogFile(log_file) ==
    IF ~IsAbsolute(log_file) THEN Join(ProjectRoot, log_file) ELSE log_file

\* p and all its ancestors, the root directory included
Ancestors(p) == {SubSeq(p, 1, k) : k \in 1 .. Len(p)}

ReadOnlyDirs == {<<"/", "ro">>}
InitialDirs == {<<"/">>, <<"/", "proj">>, <<"/", "proj", "utils">>, <<"/", "ro">>}

\* Path.mkdir(parents=True, exist_ok=True): the missing ancestors are created
\* top-down; creating a directory inside a read-only directory fails.
MkdirFails(ds, p) ==
    \E d \in Ancestors(p) : d \notin ds /\ Parent(d) \in ds /\ Parent(d) \in ReadOnlyDirs
Mkdir(ds, p) == ds \cup Ancestors(p)

\* open(path, "a"): creating a file needs a writable directory
OpenFails(ds, fs, p) ==
    \/ p \in ds
    \/ Parent(p) \notin ds
    \/ <<p, 0>> \notin DOMAIN fs /\ Parent(p) \in ReadOnlyDirs

EmptyFile == [lines |-> <<>>, size |-> 0]

OpenAppend(fs, p) ==
    IF <<p, 0>> \in DOMAIN fs THEN fs
    ELSE [k \in DOMAIN fs \cup {<<p, 0>>} |-> IF k = <<p, 0>> THEN EmptyFile ELSE fs[k]]

----------------------------------------------------------------------------
(* Loggers and handlers *)

RootName == ""
Names == {RootName, "svc"}
NoneName == "<None>"                          \* name=None

\* a Logger as logging creates it; the root logger is created with WARNING
NewLogger(n) ==
    [level |-> IF n = RootName THEN WARNING ELSE NOTSET, handlers |-> <<>>, propagate |-> TRUE]

\* lines 86-87: console_handler = StreamHandler(); setFormatter(formatter)
ConsoleHandler(formatter) ==
    [kind |-> "console", formatter |-> formatter, path |-> <<>>, maxBytes |-> 0, backupCount |-> 0]

\* lines 100-106: RotatingFileHandler(str(log_file), maxBytes=, backupCount=); setFormatter(formatter)
FileHandlerMut(formatter, path, max_bytes, backup_count) ==
    [kind |-> "file", formatter |-> formatter, path |-> path,
     maxBytes |-> max_bytes, backupCount |-> backup_count + 1]
FileHandler(formatter, path, max_bytes, backup_count) ==
    [kind |-> "file", formatter |-> formatter, path |-> path,
     maxBytes |-> max_bytes, backupCount |-> backup_count]

\* logger.addHandler(h)
AddHandler(l, h) == [l EXCEPT !.handlers = Append(@, h)]

\* line 70: "if logger.handlers"
HasHandlersMut(l) == FALSE
HasHandlers(l) == Len(l.handlers) > 0

SinkCount(l, kind) == Cardinality({i \in 1 .. Len(l.handlers) : l.handlers[i].kind = kind})

\* str.lower() on the values of log_format that occur
Lower(s) ==
    CASE s = "JSON" -> "json"
      [] s = "Json" -> "json"
      [] s = "TEXT" -> "text"
      [] OTHER -> s

\* lines 77-83: the formatter chosen by log_format
MakeFormatter(log_format) == IF Lower(log_format) = "json" THEN "json" ELSE "text"

----------------------------------------------------------------------------
(* get_logger, lines 40-112 *)

DefaultMaxBytes == 10 * 1024 * 1024
DefaultBackupCount == 5

\* get_logger(): every parameter at its default
DefaultArgsMut ==
    [name |-> NoneName, log_level |-> IntLevel(WARNING), log_file |-> NoFile,
     log_format |-> "text", max_bytes |-> DefaultMaxBytes, backup_count |-> DefaultBackupCount]
DefaultArgs ==
    [name |-> NoneName, log_level |-> IntLevel(INFO), log_file |-> NoFile,
     log_format |-> "text", max_bytes |-> DefaultMaxBytes, backup_count |-> DefaultBackupCount]

NoArgs == [name |-> NoneName, log_level |-> IntLevel(NOTSET), log_file |-> NoFile,
           log_format |-> "", max_bytes |-> 0, backup_count |-> 0]
NoLocal == [formatter |-> "", log_file |-> NoFile]

\* line 67: name if name is not None else ""
LoggerName(a) == IF a.name # NoneName THEN a.name ELSE RootName

Goto(t, l) == pc' = [pc EXCEPT ![t] = l]

\* a thread enters get_logger with the arguments a
Call(t, a) ==
    /\ pc[t] = "idle"
    /\ root_logger = "bound"
    /\ Goto(t, "l67")
    /\ args' = [args EXCEPT ![t] = a]
    /\ UNCHANGED <<loggers, dirs, files, local, root_logger, events, record, delivered, returned, io_failed>>

\* line 116: root_logger = get_logger(), run once by the importing thread
ModuleInit ==
    /\ root_logger = "unbound"
    /\ pc[1] = "idle"
    /\ Goto(1, "l67")
    /\ args' = [args EXCEPT ![1] = DefaultArgs]
    /\ UNCHANGED <<loggers, dirs, files, local, root_logger, events, record, delivered, returned, io_failed>>

\* line 67: logger = logging.getLogger(...)
L67(t) ==
    /\ pc[t] = "l67"
    /\ Goto(t, "l70")
    /\ UNCHANGED <<loggers, dirs, files, args, local, root_logger, events, record, delivered, returned, io_failed>>

\* line 70: if logger.handlers: return logger
L70(t) ==
    /\ pc[t] = "l70"
    /\ IF HasHandlers(loggers[LoggerName(args[t])]) THEN Goto(t, "l71") ELSE Goto(t, "l74")
    /\ UNCHANGED <<loggers, dirs, files, args, local, root_logger, events, record, delivered, returned, io_failed>>

\* line 74: logger.setLevel(log_level), which raises for an unknown level
L74(t) ==
    /\ pc[t] = "l74"
    /\ IF LevelAccepted(args[t].log_level)
       THEN /\ loggers' = [loggers EXCEPT ![LoggerName(args[t])].level = CheckLevel(args[t].log_level)]
            /\ Goto(t, "l77")
       ELSE /\ Goto(t, "raise74")
            /\ UNCHANGED loggers
    /\ UNCHANGED <<dirs, files, args, local, root_logger, events, record, delivered, returned, io_failed>>

\* lines 77-83: formatter = JSONFormatter() or logging.Formatter(...)
L77(t) ==
    /\ pc[t] = "l77"
    /\ local' = [local EXCEPT ![t].formatter = MakeFormatter(args[t].log_format)]
    /\ Goto(t, "l86")
    /\ UNCHANGED <<loggers, dirs, files, args, root_logger, events, record, delivered, returned, io_failed>>

\* lines 86-88: the console handler is always added
L86(t) ==
    /\ pc[t] = "l86"
    /\ loggers' = [loggers EXCEPT ![LoggerName(args[t])] = AddHandler(@, ConsoleHandler(local[t].formatter))]
    /\ Goto(t, "l91")
    /\ UNCHANGED <<dirs, files, args, local, root_logger, events, record, delivered, returned, io_failed>>

\* lines 91-96: if log_file: resolve it
L91(t) ==
    /\ pc[t] = "l91"
    /\ IF args[t].log_file # NoFile
       THEN /\ local' = [local EXCEPT ![t].log_file = ResolveLogFile(args[t].log_file)]
            /\ Goto(t, "l98")
       ELSE /\ Goto(t, "l110")
            /\ UNCHANGED local
    /\ UNCHANGED <<loggers, dirs, files, args, root_logger, events, record, delivered, returned, io_failed>>

\* line 98: log_file.parent.mkdir(parents=True, exist_ok=True)
L98(t) ==
    /\ pc[t] = "l98"
    /\ IF MkdirFails(dirs, Parent(local[t].log_file))
       THEN /\ Goto(t, "raise98")
            /\ UNCHANGED dirs
       ELSE /\ dirs' = Mkdir(dirs, Parent(local[t].log_file))
            /\ Goto(t, "l100")
    /\ UNCHANGED <<loggers, files, args, local, root_logger, events, record, delivered, returned, io_failed>>

\* lines 100-107: the rotating file handler opens the file and is added
L100(t) ==
    /\ pc[t] = "l100"
    /\ IF OpenFails(dirs, files, local[t].log_file)
       THEN /\ Goto(t, "raise100")
            /\ UNCHANGED <<loggers, files>>
       ELSE /\ files' = OpenAppend(files, local[t].log_file)
            /\ loggers' = [loggers EXCEPT ![LoggerName(args[t])] =
                              AddHandler(@, FileHandler(local[t].formatter, local[t].log_file,
                                                        args[t].max_bytes, args[t].backup_count))]
            /\ Goto(t, "l110")
    /\ UNCHANGED <<dirs, args, local, root_logger, events, record, delivered, returned, io_failed>>

\* line 110: logger.propagate = False
L110(t) ==
    /\ pc[t] = "l110"
    /\ loggers' = [loggers EXCEPT ![LoggerName(args[t])].propagate = FALSE]
    /\ Goto(t, "l112")
    /\ UNCHANGED <<dirs, files, args, local, root_logger, events, record, delivered, returned, io_failed>>

\* lines 71 and 112: return logger; the module-level call binds root_logger
Return(t) ==
    /\ pc[t] \in {"l71", "l112"}
    /\ Goto(t, "idle")
    /\ args' = [args EXCEPT ![t] = NoArgs]
    /\ local' = [local EXCEPT ![t] = NoLocal]
    /\ root_logger' = "bound"
    /\ returned' = returned \cup {LoggerName(args[t])}
    /\ UNCHANGED <<loggers, dirs, files, events, record, delivered, io_failed>>

\* the exception raised at line 74, 98 or 100 leaves get_logger
Raise(t) ==
    /\ pc[t] \in {"raise74", "raise98", "raise100"}
    /\ Goto(t, "idle")
    /\ args' = [args EXCEPT ![t] = NoArgs]
    /\ local' = [local EXCEPT ![t] = NoLocal]
    /\ io_failed' = IF pc[t] = "raise74" THEN io_failed ELSE io_failed \cup {LoggerName(args[t])}
    /\ UNCHANGED <<loggers, dirs, files, root_logger, events, record, delivered, returned>>

----------------------------------------------------------------------------
(* Log records and the two formatters *)

\* JSON values: a string, an integer, null, or an object json.dumps cannot serialise
JStr(s) == [t |-> "str", s |-> s, i |-> 0]
JInt(i) == [t |-> "int", s |-> "", i |-> i]
JNull == [t |-> "null", s |-> "", i |-> 0]
JObject == [t |-> "object", s |-> "", i |-> 0]

NoExtra == [present |-> FALSE, map |-> <<>>]          \* the record has no attribute "extra"
Extra(m) == [present |-> TRUE, map |-> m]             \* record.extra = m, a dict as its items in order

NoRecord ==
    [name |-> "", levelno |-> NOTSET, msg |-> "", exc_info |-> "None", extra |-> NoExtra,
     module |-> "", funcName |-> "", lineno |-> 0, created |-> 0]

\* a LogRecord made by a logging call in app.py, function main, line 42
MakeRecord(levelno, msg, exc_info, extra) ==
    [name |-> "", levelno |-> levelno, msg |-> msg, exc_info |-> exc_info, extra |-> extra,
     module |-> "app", funcName |-> "main", lineno |-> 42, created |-> 0]

\* Formatter.formatTime: "%Y-%m-%d %H:%M:%S", and ",msecs" appended when datefmt is None
FormatTime(created, hasDatefmt) ==
    "2026-01-01 00:00:0" \o ToString(created) \o (IF hasDatefmt THEN "" ELSE ",000")

\* Formatter.formatException; exc_info is None, (None, None, None) or a raised exception
FormatException(exc_info) ==
    IF exc_info = "Exc" THEN "Traceback (most recent call last): ValueError: boom" ELSE "NoneType: None"

Keys(d) == {d[i][1] : i \in 1 .. Len(d)}
Value(d, k) == d[CHOOSE i \in 1 .. Len(d) : d[i][1] = k][2]

\* dict.update with one item: an existing key keeps its place and takes the new value
SetItemMut(d, kv) == IF kv[1] \in Keys(d) THEN d ELSE Append(d, kv)
SetItem(d, kv) ==
    IF kv[1] \in Keys(d)
    THEN [i \in 1 .. Len(d) |-> IF d[i][1] = kv[1] THEN kv ELSE d[i]]
    ELSE Append(d, kv)

RECURSIVE Update(_, _)
Update(d, m) == IF m = <<>> THEN d ELSE Update(SetItem(d, Head(m)), Tail(m))

\* lines 20-27: the six standard keys
StandardFields(rec) ==
    << <<"timestamp", JStr(FormatTime(rec.created, FALSE))>>,
       <<"level", JStr(GetLevelName(rec.levelno))>>,
       <<"message", JStr(rec.msg)>>,
       <<"module", JStr(rec.module)>>,
       <<"function", JStr(rec.funcName)>>,
       <<"line", JInt(rec.lineno)>> >>

\* lines 30-31: the exception is added if record.exc_info is truthy
WithExceptionMut(d, rec) ==
    Append(d, <<"exception", IF rec.exc_info # "None" THEN JStr(FormatException(rec.exc_info)) ELSE JNull>>)
WithException(d, rec) ==
    IF rec.exc_info # "None" THEN Append(d, <<"exception", JStr(FormatException(rec.exc_info))>>) ELSE d

\* lines 34-35: record.extra is merged if the attribute exists and is truthy
WithExtra(d, rec) ==
    IF rec.extra.present /\ rec.extra.map # <<>> THEN Update(d, rec.extra.map) ELSE d

\* lines 20-35: the dict log_record
LogRecordDict(rec) == WithExtra(WithException(StandardFields(rec), rec), rec)

ErrorLine == [kind |-> "error", text |-> "", obj |-> <<>>]

\* line 37: json.dumps(log_record, ensure_ascii=False) raises TypeError for a value it cannot serialise
JSONFormat(rec) ==
    LET d == LogRecordDict(rec)
    IN IF \E i \in 1 .. Len(d) : d[i][2].t = "object"
       THEN ErrorLine
       ELSE [kind |-> "json", text |-> "", obj |-> d]

\* lines 80-83: "%(asctime)s - %(name)s - %(levelname)s - %(message)s"; Formatter.format
\* appends the exception text
TextFormat(rec) ==
    [kind |-> "text",
     text |-> FormatTime(rec.created, TRUE) \o " - " \o rec.name \o " - "
                \o GetLevelName(rec.levelno) \o " - " \o rec.msg
                \o (IF rec.exc_info # "None" THEN "\n" \o FormatException(rec.exc_info) ELSE ""),
     obj |-> <<>>]

Format(formatter, rec) == IF formatter = "json" THEN JSONFormat(rec) ELSE TextFormat(rec)

\* the number of characters of a JSON value and of a line as it is written
JValueLen(v) ==
    CASE v.t = "str" -> Len(v.s) + 2
      [] v.t = "int" -> Len(ToString(v.i))
      [] OTHER -> 4

RECURSIVE JItemsLen(_)
JItemsLen(d) ==
    IF d = <<>> THEN 0
    ELSE Len(Head(d)[1]) + 4 + JValueLen(Head(d)[2]) + (IF Len(d) > 1 THEN 2 ELSE 0) + JItemsLen(Tail(d))

LineLen(line) == IF line.kind = "json" THEN 2 + JItemsLen(line.obj) ELSE Len(line.text)

----------------------------------------------------------------------------
(* The sinks: StreamHandler.emit and RotatingFileHandler.emit *)

Rename(fs, src, dst) ==
    [k \in (DOMAIN fs \ {src}) \cup {dst} |-> IF k = dst THEN fs[src] ELSE fs[k]]

\* RotatingFileHandler.doRollover: path.i becomes path.(i+1) for i = backupCount-1 .. 1
RECURSIVE ShiftBackups(_, _, _)
ShiftBackups(fs, p, i) ==
    IF i < 1 THEN fs
    ELSE ShiftBackups(IF <<p, i>> \in DOMAIN fs THEN Rename(fs, <<p, i>>, <<p, i + 1>>) ELSE fs, p, i - 1)

\* RotatingFileHandler.doRollover: shift the backups, path becomes path.1, reopen path
DoRollover(fs, p, backupCount) ==
    LET shifted == IF backupCount > 0 THEN ShiftBackups(fs, p, backupCount - 1) ELSE fs
        rotated == IF backupCount > 0 /\ <<p, 0>> \in DOMAIN shifted
                   THEN Rename(shifted, <<p, 0>>, <<p, 1>>) ELSE shifted
    IN OpenAppend(rotated, p)

\* RotatingFileHandler.shouldRollover: never for an empty file
ShouldRollover(fs, h, len) ==
    /\ h.maxBytes > 0
    /\ fs[<<h.path, 0>>].size # 0
    /\ fs[<<h.path, 0>>].size + len >= h.maxBytes

WriteLine(fs, p, id, len) ==
    [fs EXCEPT ![<<p, 0>>] = [lines |-> Append(@.lines, id), size |-> @.size + len]]

\* Handler.handle(record) for one handler: the files afterwards
HandleFiles(fs, h, rec) ==
    LET line == Format(h.formatter, rec)
        len == LineLen(line) + 1
    IN IF h.kind # "file" \/ line.kind = "error" THEN fs
       ELSE WriteLine(IF ShouldRollover(fs, h, len) THEN DoRollover(fs, h.path, h.backupCount) ELSE fs,
                      h.path, rec.created, len)

\* Logger.callHandlers: the handlers of the logger, then of its ancestors while propagate is set
ParentName(n) == RootName

RECURSIVE CallHandlers(_, _)
CallHandlers(ls, n) ==
    [i \in 1 .. Len(ls[n].handlers) |-> [owner |-> n, h |-> ls[n].handlers[i]]]
    \o (IF n # RootName /\ ls[n].propagate THEN CallHandlers(ls, ParentName(n)) ELSE <<>>)

RECURSIVE RunHandlers(_, _, _)
RunHandlers(hs, fs, rec) ==
    IF hs = <<>> THEN fs ELSE RunHandlers(Tail(hs), HandleFiles(fs, Head(hs).h, rec), rec)

\* Logger.getEffectiveLevel: the first level that is set, from the logger upwards
RECURSIVE EffectiveLevel(_, _)
EffectiveLevel(ls, n) ==
    IF ls[n].level # NOTSET \/ n = RootName THEN ls[n].level ELSE EffectiveLevel(ls, ParentName(n))

\* logger.log(level, msg, ...) on the logger named n, outside any get_logger call
Emit(n, r) ==
    /\ root_logger = "bound"
    /\ \A t \in Threads : pc[t] = "idle"
    /\ events < MaxEvents
    /\ r.levelno >= EffectiveLevel(loggers, n)
    /\ LET rec == [r EXCEPT !.name = n, !.created = events + 1]
           hs == CallHandlers(loggers, n)
       IN /\ record' = rec
          /\ events' = events + 1
          /\ files' = RunHandlers(hs, files, rec)
          /\ delivered' = [i \in 1 .. Len(hs) |->
                              [owner |-> hs[i].owner, sink |-> hs[i].h.kind,
                               line |-> Format(hs[i].h.formatter, rec)]]
    /\ UNCHANGED <<loggers, dirs, pc, args, local, root_logger, returned, io_failed>>

----------------------------------------------------------------------------
(* The inputs *)

RelativeLog == <<"logs", "app.log">>
AbsoluteLog == <<"/", "var", "log", "app.log">>
ReadOnlyLog == <<"/", "ro", "app.log">>               \* opening it fails
ReadOnlySubLog == <<"/", "ro", "sub", "app.log">>     \* creating its directory fails

SmallMaxBytes == 100

NameChoices == {NoneName, "svc"}
LevelChoices == {IntLevel(INFO), StrLevel("DEBUG"), StrLevel("debug")}
FileChoices == {NoFile, RelativeLog, AbsoluteLog, ReadOnlyLog, ReadOnlySubLog}
FormatChoices == {"text", "JSON"}
BackupChoices == {1, 2}

ArgsOf(names, levels, logfiles, formats, sizes, counts) ==
    [name : names, log_level : levels, log_file : logfiles,
     log_format : formats, max_bytes : sizes, backup_count : counts]

\* the calls of the sequential program
CallArgs == ArgsOf(NameChoices, LevelChoices, FileChoices, FormatChoices, {SmallMaxBytes}, BackupChoices)

\* the calls that race for the logger "svc"
ConcArgs == ArgsOf({"svc"}, {IntLevel(INFO), StrLevel("debug")},
                   {NoFile, RelativeLog, ReadOnlyLog, ReadOnlySubLog}, {"text"}, {SmallMaxBytes}, {1})

\* the calls that set up console logging only
ConsoleArgs == ArgsOf(NameChoices, {IntLevel(INFO)}, {NoFile}, {"text", "json", "JSON"},
                      {DefaultMaxBytes}, {DefaultBackupCount})

\* the records of the sequential program: plain messages
PlainRecords == {MakeRecord(l, m, "None", NoExtra) : l \in {DEBUG, ERROR}, m \in {"started"}}

ExtraChoices ==
    {NoExtra, Extra(<<>>),
     Extra(<< <<"request_id", JStr("abc")>> >>),
     Extra(<< <<"user", JInt(7)>>, <<"level", JStr("AUDIT")>> >>),
     Extra(<< <<"exception", JNull>>, <<"line", JStr("n/a")>> >>),
     Extra(<< <<"conn", JObject>> >>)}

\* the records that exercise the formatter
AllRecords ==
    {MakeRecord(l, m, e, x) : l \in {INFO, ERROR}, m \in {"started", "café"},
                              e \in {"None", "NoneTuple", "Exc"}, x \in ExtraChoices}

----------------------------------------------------------------------------
(* Specifications *)

Init ==
    /\ loggers = [n \in Names |-> NewLogger(n)]
    /\ dirs = InitialDirs
    /\ files = <<>>
    /\ pc = [t \in Threads |-> "idle"]
    /\ args = [t \in Threads |-> NoArgs]
    /\ local = [t \in Threads |-> NoLocal]
    /\ root_logger = "unbound"
    /\ events = 0
    /\ record = NoRecord
    /\ delivered = <<>>
    /\ returned = {}
    /\ io_failed = {}

Quiet == \A t \in Threads : pc[t] = "idle"

\* the sequential program: the importing thread (thread 1) makes one get_logger call at a time
SeqCall == \E a \in CallArgs : Quiet /\ Call(1, a)
SeqEmit == \E n \in Names : \E r \in PlainRecords : Emit(n, r)

\* several threads inside get_logger at once
ConcCall == \E t \in Threads : \E a \in ConcArgs : Call(t, a)

\* console logging with every kind of record
ConsoleCall == \E a \in ConsoleArgs : Quiet /\ Call(1, a)
AnyEmit == \E n \in Names : \E r \in AllRecords : Emit(n, r)

StepL67 == \E t \in Threads : L67(t)
StepL70 == \E t \in Threads : L70(t)
StepL74 == \E t \in Threads : L74(t)
StepL77 == \E t \in Threads : L77(t)
StepL86 == \E t \in Threads : L86(t)
StepL91 == \E t \in Threads : L91(t)
StepL98 == \E t \in Threads : L98(t)
StepL100 == \E t \in Threads : L100(t)
StepL110 == \E t \in Threads : L110(t)
StepReturn == \E t \in Threads : Return(t)
StepRaise == \E t \in Threads : Raise(t)

Next ==
    \/ ModuleInit
    \/ SeqCall
    \/ StepL67
    \/ StepL70
    \/ StepL74
    \/ StepL77
    \/ StepL86
    \/ StepL91
    \/ StepL98
    \/ StepL100
    \/ StepL110
    \/ StepReturn
    \/ StepRaise
    \/ SeqEmit

Spec == Init /\ [][Next]_vars

NextConc ==
    \/ ModuleInit
    \/ ConcCall
    \/ StepL67
    \/ StepL70
    \/ StepL74
    \/ StepL77
    \/ StepL86
    \/ StepL91
    \/ StepL98
    \/ StepL100
    \/ StepL110
    \/ StepReturn
    \/ StepRaise

SpecConc == Init /\ [][NextConc]_vars

NextFmt ==
    \/ ModuleInit
    \/ ConsoleCall
    \/ StepL67
    \/ StepL70
    \/ StepL74
    \/ StepL77
    \/ StepL86
    \/ StepL91
    \/ StepL110
    \/ StepReturn
    \/ AnyEmit

SpecFmt == Init /\ [][NextFmt]_vars

----------------------------------------------------------------------------
(* Properties *)

Returning == {"l71", "l112"}
Raising == {"raise74", "raise98", "raise100"}
InCall(t, n) == pc[t] # "idle" /\ LoggerName(args[t]) = n

\* C1: once get_logger has returned the logger of a name, a later get_logger call
\* with that name (whatever its other arguments) changes nothing of the logger's
\* threshold, sinks, formatters and propagation flag, and returns instead of raising.
C1_SecondCallChangesNothing ==
    [][\A n \in returned :
          /\ loggers'[n] = loggers[n]
          /\ \A t \in Threads : InCall(t, n) => pc'[t] \notin Raising]_vars

\* a second call for "svc" that asks for a file sink returns the logger without one
C1_Witness ==
    \E t \in Threads :
        /\ pc[t] = "l71" /\ args[t].name = "svc" /\ "svc" \in returned
        /\ args[t].log_file = RelativeLog /\ args[t].log_level = StrLevel("DEBUG")
        /\ loggers["svc"].level = INFO
        /\ SinkCount(loggers["svc"], "file") = 0

\* C2: a logger never has more than one console sink nor more than one file sink,
\* however the calls of several threads interleave.
C2_AtMostOneSinkOfEachKind ==
    \A n \in Names : SinkCount(loggers[n], "console") <= 1 /\ SinkCount(loggers[n], "file") <= 1

\* C3: once setting up the file sink failed for a name, no get_logger call returns
\* the logger of that name with a console sink and no file sink.
C3_NoConsoleOnlyFallback ==
    \A t \in Threads :
        (pc[t] \in Returning /\ LoggerName(args[t]) \in io_failed)
            => SinkCount(loggers[LoggerName(args[t])], "file") >= 1

BackupNumbers(fs, p) == {k[2] : k \in {j \in DOMAIN fs : j[1] = p /\ j[2] >= 1}}
LineIds(fs, p) == UNION {{fs[k].lines[i] : i \in 1 .. Len(fs[k].lines)} : k \in {j \in DOMAIN fs : j[1] = p}}
FilePaths(fs) == {k[1] : k \in DOMAIN fs}

\* the file sink is created with the max_bytes and backup_count of the call
C4_SinkAsRequested ==
    \A t \in Threads :
        (pc[t] \in {"l110", "l112"} /\ args[t].log_file # NoFile) =>
            LET hs == loggers[LoggerName(args[t])].handlers
            IN /\ hs[Len(hs)].kind = "file"
               /\ hs[Len(hs)].maxBytes = args[t].max_bytes
               /\ hs[Len(hs)].backupCount = args[t].backup_count

C4_BackupsBounded ==
    \A n \in Names : \A i \in 1 .. Len(loggers[n].handlers) :
        LET h == loggers[n].handlers[i]
        IN (h.kind = "file" /\ h.maxBytes > 0 /\ h.backupCount >= 1) =>
               BackupNumbers(files, h.path) \subseteq 1 .. h.backupCount

C4_ShiftAndDropOldest ==
    \A p \in FilePaths(files) :
        /\ \A gone \in LineIds(files, p) \ LineIds(files', p) :
               \A kept \in LineIds(files', p) : gone < kept
        /\ \/ /\ BackupNumbers(files', p) = BackupNumbers(files, p)
              /\ \A k \in BackupNumbers(files', p) : files'[<<p, k>>] = files[<<p, k>>]
           \/ /\ files'[<<p, 0>>].lines = <<record'.created>>
              /\ \A k \in BackupNumbers(files', p) :
                     <<p, k - 1>> \in DOMAIN files /\ files'[<<p, k>>] = files[<<p, k - 1>>]

\* C4: a file sink set up with max_bytes > 0 and backup_count >= 1 never leaves more
\* than backup_count backups path.1 .. path.backup_count next to the active file; a
\* rotation moves every file one number up and what is lost is older than all that is kept.
C4_RotationKeepsBackupCount ==
    /\ [](C4_SinkAsRequested /\ C4_BackupsBounded)
    /\ [][C4_ShiftAndDropOldest]_vars

\* the backups are at the limit of 1, and the active file has been rotated again
C4_Witness ==
    \E i \in 1 .. Len(loggers["svc"].handlers) :
        LET h == loggers["svc"].handlers[i]
        IN /\ h.kind = "file" /\ h.backupCount = 1 /\ h.maxBytes = SmallMaxBytes
           /\ BackupNumbers(files, h.path) = {1}
           /\ files[<<h.path, 1>>].lines = <<2>>
           /\ files[<<h.path, 0>>].lines = <<3>>

\* C5: a logger that get_logger returns has propagate = False, and a record logged
\* on a returned logger is written by that logger's own sinks only.
C5_ReturnedNeverPropagates ==
    /\ \A t \in Threads : pc[t] \in Returning => ~loggers[LoggerName(args[t])].propagate
    /\ record.name \in returned =>
           \A i \in 1 .. Len(delivered) : delivered[i].owner = record.name

StandardKeys == {"timestamp", "level", "message", "module", "function", "line"}
NoExtraFields(rec) == ~rec.extra.present \/ rec.extra.map = <<>>
JsonLines == {i \in 1 .. Len(delivered) : delivered[i].line.kind = "json"}

\* C6: a JSON line for a record without extra fields has exactly the six standard
\* keys, plus "exception" exactly when the record has exception info; no key occurs
\* twice and "exception" is never null.
C6_JsonKeySet ==
    \A i \in JsonLines :
        LET obj == delivered[i].line.obj
        IN NoExtraFields(record) =>
              /\ Keys(obj) = StandardKeys \cup (IF record.exc_info = "None" THEN {} ELSE {"exception"})
              /\ Len(obj) = Cardinality(Keys(obj))
              /\ \A j \in 1 .. Len(obj) : obj[j][1] = "exception" => obj[j][2].t = "str"

C6_Witness ==
    /\ JsonLines # {}
    /\ NoExtraFields(record)
    /\ record.exc_info = "Exc"
    /\ \A i \in JsonLines : Cardinality(Keys(delivered[i].line.obj)) = 7

ValidLevelNames == {"CRITICAL", "ERROR", "WARNING", "INFO", "DEBUG", "NOTSET"}
ValidLevel(level) == level.isInt \/ level.name \in ValidLevelNames
ExpectedLevel(level) ==
    IF level.isInt THEN level.num
    ELSE CASE level.name = "DEBUG" -> 10 [] level.name = "INFO" -> 20 [] level.name = "WARNING" -> 30
           [] level.name = "ERROR" -> 40 [] level.name = "CRITICAL" -> 50 [] OTHER -> 0

\* C8: a call with an unknown log_level raises at setLevel and leaves the logger
\* without sinks; a call never gets past setLevel with an unknown level, and a call
\* that finds no sinks runs the whole configuration.
C8_BadLevelFailsBeforeSinks ==
    \A t \in Threads :
        LET l == loggers[LoggerName(args[t])]
        IN /\ pc[t] = "raise74" => (~ValidLevel(args[t].log_level) /\ Len(l.handlers) = 0)
           /\ pc[t] \in {"l77", "l86", "l91", "l98", "l100", "l110", "l112", "raise98", "raise100"}
                  => (ValidLevel(args[t].log_level) /\ l.level = ExpectedLevel(args[t].log_level))
           /\ pc[t] = "l71" => Len(l.handlers) > 0
           /\ pc[t] = "l112" => (Len(l.handlers) > 0 /\ l.handlers[1].kind = "console" /\ ~l.propagate)

\* the call for "svc" failed on its level and "svc" has no sinks
C8_Witness ==
    \E t \in Threads :
        /\ pc[t] = "raise74" /\ args[t].name = "svc" /\ args[t].log_level = StrLevel("debug")
        /\ Len(loggers["svc"].handlers) = 0

ExpectedPath(log_file) == IF log_file[1] = "/" THEN log_file ELSE <<"/", "proj">> \o log_file

\* C9: when the file sink has been added, it is open on log_file itself if log_file
\* is absolute and on <project root>/log_file otherwise; the file exists and so does
\* every directory above it.
C9_LogFileResolved ==
    \A t \in Threads :
        (pc[t] \in {"l110", "l112"} /\ args[t].log_file # NoFile) =>
            LET hs == loggers[LoggerName(args[t])].handlers
                path == ExpectedPath(args[t].log_file)
            IN /\ hs[Len(hs)].kind = "file"
               /\ hs[Len(hs)].path = path
               /\ <<path, 0>> \in DOMAIN files
               /\ \A k \in 1 .. Len(path) - 1 : SubSeq(path, 1, k) \in dirs

C9_Witness ==
    \E t \in Threads :
        /\ pc[t] = "l112" /\ args[t].log_file = RelativeLog
        /\ <<"/", "proj", "logs">> \in dirs
        /\ <<(<<"/", "proj", "logs", "app.log">>), 0>> \in DOMAIN files

RootAsInitialised ==
    [level |-> 20, handlers |-> <<ConsoleHandler("text")>>, propagate |-> FALSE]

\* C10: once the module is initialised the root logger has level INFO, one console
\* sink with the text format and no file sink, for good; a later call without a name
\* takes the early return.
C10_RootConfiguredOnce ==
    /\ (root_logger = "bound" \/ \E t \in Threads : pc[t] = "l112") => loggers[RootName] = RootAsInitialised
    /\ root_logger = "bound" =>
           \A t \in Threads : InCall(t, RootName) => pc[t] \in {"l67", "l70", "l71"}

C10_Witness ==
    \E t \in Threads :
        /\ root_logger = "bound" /\ pc[t] = "l71" /\ args[t].name = NoneName
        /\ args[t].log_file = AbsoluteLog /\ args[t].log_format = "JSON"
        /\ args[t].log_level = StrLevel("DEBUG")

====
